---- MODULE Spec2Model ----
(***************************************************************************)
(* Model of the sky action file (src/action_file.c) and of the bstring     *)
(* wrappers around the MessagePack codec (src/minipack.c).                 *)
(*                                                                         *)
(* Bytes are integers 0..255.  A bstring is the sequence of its bytes; the *)
(* NULL bstring is NullStr.  A file is its sequence of bytes; a stream     *)
(* position p is the number of bytes already consumed, so the next byte    *)
(* is bytes[p+1].  The action array of the registry is the sequence of the *)
(* slots reachable through action_file->actions; the NULL pointer reaches  *)
(* no slot and is the empty sequence.                                      *)
(***************************************************************************)
EXTENDS Integers, Sequences, FiniteSets, TLC

\* ---------------------------------------------------------------- bounds
\* Largest action_count the model lets add reach.
MaxActions == 3
\* Largest number of records in a file that exists before the first call.
MaxFixture == 2
\* Largest length of the stream the bstring codec is first called on, and
\* largest length at which a string is still written to it.
MaxStream == 3

\* ------------------------------------------------------------- constants
\* sizeof(char*) of the build: the item size handed to fread and fwrite.
PtrSize == 8
\* MessagePack single-byte tags: fixarray 0x90+n, fixraw 0xA0+n,
\* positive fixnum 0x00..0x7F.
FixArrayTag == 144
FixArrayMax == 15
FixRawTag == 160
FixRawMax == 31
FixnumMax == 127

\* ------------------------------------------------------------ input sets
\* Values of bytes the program never initialised (memory past a bstring's
\* terminator, a malloc'ed buffer that fread did not fill).
GarbageBytes == {0, 97}
\* The NULL bstring.
NullStr == <<-1>>
\* Names of the records of a file that exists before the first call.
FixtureNames == {<<97>>, <<97, 98>>}
\* Names of the actions handed to add and to findByName.
AddNames == FixtureNames \cup {<<98>>, <<>>, NullStr}
\* The bytes of the streams the bstring codec is called on: the headers
\* of raw strings of length 0, 1 and 2, and 'a'.
StreamBytes == {FixRawTag, FixRawTag + 1, FixRawTag + 2, 97}
\* action_file->table is NULL: the registry has no owner.
NoTable == <<-2>>
\* The owning table: none, or its path, NULL or "t".
TablePaths == {NoTable, NullStr, <<116>>}

Min(a, b) == IF a < b THEN a ELSE b

\* bstrlib blength(): length of a bstring, 0 for NULL.
blength(s) == IF s = NullStr THEN 0 ELSE Len(s)

\* bstrlib biseq(): 1 equal, 0 different, -1 (BSTR_ERR) on a NULL argument.
biseq(a, b) ==
    IF a = NullStr \/ b = NullStr THEN -1
    ELSE IF a = b THEN 1 ELSE 0

\* n copies of byte g.
RECURSIVE Fill(_, _)
Fill(n, g) == IF n <= 0 THEN <<>> ELSE <<g>> \o Fill(n - 1, g)

\* ----------------------------------------------------- MessagePack codec
\* minipack_fread_array: element count and bytes consumed (0 = failure).
minipack_fread_array(bytes, pos) ==
    IF pos < Len(bytes) /\ bytes[pos + 1] >= FixArrayTag
                        /\ bytes[pos + 1] <= FixArrayTag + FixArrayMax
    THEN [value |-> bytes[pos + 1] - FixArrayTag, sz |-> 1]
    ELSE [value |-> 0, sz |-> 0]

\* minipack_fread_int: value and bytes consumed (0 = failure).
minipack_fread_int(bytes, pos) ==
    IF pos < Len(bytes) /\ bytes[pos + 1] >= 0 /\ bytes[pos + 1] <= FixnumMax
    THEN [value |-> bytes[pos + 1], sz |-> 1]
    ELSE [value |-> 0, sz |-> 0]

\* minipack_fread_raw: payload length and bytes consumed (0 = failure).
minipack_fread_raw(bytes, pos) ==
    IF pos < Len(bytes) /\ bytes[pos + 1] >= FixRawTag
                        /\ bytes[pos + 1] <= FixRawTag + FixRawMax
    THEN [value |-> bytes[pos + 1] - FixRawTag, sz |-> 1]
    ELSE [value |-> 0, sz |-> 0]

\* minipack_fwrite_array / _int / _raw: the bytes written.
minipack_fwrite_array(n) == <<FixArrayTag + n>>
minipack_fwrite_int(v) == <<v>>
minipack_fwrite_raw(n) == <<FixRawTag + n>>

\* ------------------------------------------------- bstring codec adapter
\* fread(buffer, size, nmemb, file): the bytes transferred; the return
\* value is the number of COMPLETE items among them.
fread_bytes(bytes, pos, size, nmemb) == Min(size * nmemb, Len(bytes) - pos)

\* sky_minipack_fread_bstring.  memfail: malloc or blk2bstr returns NULL.
\* g: the value of the buffer bytes fread did not fill.  Result: rc, the
\* bstring, the stream position afterwards, and two markers of undefined
\* behaviour: overflow (fread wrote past the length+1 bytes of the buffer)
\* and wild (the error path tests and destroys the uninitialised str);
\* faulted: the failure is the allocation's, not the stream's; leakbuf:
\* the error path returns without freeing the buffer it had allocated.
sky_minipack_fread_bstring(bytes, pos, memfail, g) ==
    LET hdr    == minipack_fread_raw(bytes, pos)
        length == hdr.value
        start  == pos + hdr.sz
        nread  == fread_bytes(bytes, start, PtrSize, length)
        sz     == nread \div PtrSize
        buffer == [i \in 1..length |->
                     IF i <= nread THEN bytes[start + i] ELSE g]
        err    == [rc |-> -1, str |-> NullStr, pos |-> pos,
                   overflow |-> FALSE, wild |-> TRUE, faulted |-> FALSE,
                   leakbuf |-> FALSE]
    IN  IF hdr.sz = 0 THEN err
        ELSE IF memfail THEN [err EXCEPT !.faulted = TRUE]
        ELSE IF ~(sz # length)
             THEN [err EXCEPT !.overflow = nread > length + 1,
                              !.leakbuf = TRUE]
        ELSE [rc |-> 0, str |-> buffer, pos |-> start + nread,
              overflow |-> nread > length + 1, wild |-> FALSE,
              faulted |-> FALSE, leakbuf |-> FALSE]

\* sky_minipack_fwrite_bstring: the bytes written for str.  fwrite is
\* handed blength(str) items of PtrSize bytes, so it copies the string, its
\* terminator and then memory past it (value g).
sky_minipack_fwrite_bstring(str, g) ==
    minipack_fwrite_raw(blength(str)) \o
    (IF str # NullStr /\ blength(str) > 0
     THEN str \o <<0>> \o Fill(PtrSize * blength(str) - blength(str) - 1, g)
     ELSE <<>>)

\* ------------------------------------------------------------ the state
VARIABLES
    table,         \* action_file->table: NoTable, or table->path
    actions,       \* action_file->actions: the slots, <<>> for NULL
    action_count,  \* action_file->action_count
    file_exists,   \* sky_file_exists(<table path>/actions)
    file,          \* the bytes of <table path>/actions (<<>> if absent)
    crashed,       \* the process died inside the last call
    last,          \* the last call: its name, argument and result, whether
                   \* an I/O or allocation fault hit it, and the count and
                   \* the existence of the file before it
    stream,        \* the bytes of a FILE* handed to the bstring codec
    stream_pos,    \* ftell() of that stream
    codec          \* the last call of the bstring codec on that stream

vars == <<table, actions, action_count, file_exists, file, crashed, last,
          stream, stream_pos, codec>>

\* The state of the stream the bstring codec is called on directly.
codec_vars == <<stream, stream_pos, codec>>

\* The state of the action file and of its file on disk.
registry_vars == <<table, actions, action_count, file_exists, file, last>>

\* struct sky_action: id, name and the back-reference to its action file.
sky_action(id, name, af) == [id |-> id, name |-> name, action_file |-> af]

\* A detached action, as sky_action_create leaves it.
NoAction == sky_action(0, NullStr, "NULL")

\* The record of a call.
\* ret: the position of the action findByName returned (0: NULL).
\* opened, closed: the fopen calls that succeeded and the fclose calls on
\* their handles.  close_wild: fclose was called on a FILE* the call never
\* opened.  leaked: the objects the call allocated that are neither owned
\* by the registry nor freed at its return.  freed: the actions the call
\* released.
Call(op, rc, arg, decoded, faulted) ==
    [op |-> op, rc |-> rc, arg |-> arg, decoded |-> decoded,
     faulted |-> faulted,
     pre_count |-> action_count, pre_exists |-> file_exists,
     ret |-> 0, opened |-> 0, closed |-> 0, close_wild |-> FALSE,
     leaked |-> 0, freed |-> 0]

\* -------------------------------------------- the file format (spec 6)
\* ArrayHeader(count), then Int(id) RawString(name) per action, the
\* payload of a raw string being exactly the bytes of the name.
RECURSIVE WireRecords(_, _)
WireRecords(as, i) ==
    IF i > Len(as) THEN <<>>
    ELSE minipack_fwrite_int(as[i].id) \o minipack_fwrite_raw(Len(as[i].name))
         \o as[i].name \o WireRecords(as, i + 1)

WireFormat(as) == minipack_fwrite_array(Len(as)) \o WireRecords(as, 1)

\* Registries with ids 1..n and pairwise distinct names, n <= MaxFixture.
FixtureRegistries ==
    UNION { { [i \in 1..n |-> sky_action(i, f[i], "self")] :
                f \in { h \in [1..n -> FixtureNames] :
                          \A i, j \in 1..n : h[i] = h[j] => i = j } } :
            n \in 0..MaxFixture }

\* The files that can exist before the first call: one created empty, or
\* one holding a registry in the file format.
FixtureFiles == {<<>>} \cup { WireFormat(r) : r \in FixtureRegistries }

\* ------------------------------------------------------------ get_path
\* sky_action_file_get_path: fails when there is no table or the table
\* has no path, otherwise
\* bformat("%s/actions", path).
sky_action_file_get_path(tbl) ==
    IF tbl = NoTable THEN [rc |-> -1, path |-> NullStr]
    ELSE IF tbl = NullStr THEN [rc |-> -1, path |-> NullStr]
    ELSE [rc |-> 0, path |-> tbl \o <<47, 97, 99, 116, 105, 111, 110, 115>>]

\* -------------------------------------------------------------- unload
\* unload as it would be with the reset of the count inside the
\* `if(action_file->actions)` block (line 231 moved before line 229).
sky_action_file_unload_count_inside(as, count) ==
    [rc |-> 0, actions |-> <<>>,
     action_count |-> IF Len(as) = 0 THEN count ELSE 0,
     freed |-> IF Len(as) = 0 THEN 0 ELSE count]

\* sky_action_file_unload: frees every action and the array, zeroes count.
\* freed: the actions released (the loop runs only when the array is not
\* NULL).
sky_action_file_unload(as, count) ==
    [rc |-> 0, actions |-> <<>>, action_count |-> 0,
     freed |-> IF Len(as) = 0 THEN 0 ELSE count]

\* ---------------------------------------------------------------- load
\* What can go wrong in load besides the content of the file: fopen fails,
\* malloc of the array fails, sky_action_create of record `at` fails, an
\* allocation inside the bstring read of record `at` fails.
LoadFaults ==
    {[kind |-> k, at |-> 0] : k \in {"none", "fopen", "malloc"}} \cup
    {[kind |-> k, at |-> i] : k \in {"action_create", "bstring"},
                              i \in 0..(MaxFixture - 1)}

\* The loop of load over records i..count-1 (i counted from 0), acc being
\* the actions stored in the local array so far.  Result: rc, the local
\* array, the stream position, the markers of undefined behaviour, and
\* leaked: on failure, the objects the error path of load leaves
\* allocated (the array, the actions stored in it, the action under
\* construction, the buffer of the bstring read).
RECURSIVE ReadActions(_, _, _, _, _, _, _)
ReadActions(bytes, pos, i, count, acc, fault, g) ==
    IF i >= count
    THEN [rc |-> 0, actions |-> acc, pos |-> pos, ub |-> FALSE,
          faulted |-> FALSE, leaked |-> 0]
    ELSE IF fault = [kind |-> "action_create", at |-> i]
    THEN [rc |-> -1, actions |-> acc, pos |-> pos, ub |-> FALSE,
          faulted |-> TRUE, leaked |-> 1 + Len(acc)]
    ELSE
      LET id == minipack_fread_int(bytes, pos)
          s  == sky_minipack_fread_bstring(bytes, pos + id.sz,
                    fault = [kind |-> "bstring", at |-> i], g)
      IN  IF id.sz = 0
          THEN [rc |-> -1, actions |-> acc, pos |-> pos, ub |-> FALSE,
                faulted |-> FALSE, leaked |-> 1 + Len(acc) + 1]
          ELSE IF s.rc # 0
          THEN [rc |-> -1, actions |-> acc, pos |-> s.pos,
                ub |-> s.overflow \/ s.wild, faulted |-> s.faulted,
                leaked |-> 1 + Len(acc) + 1 + (IF s.leakbuf THEN 1 ELSE 0)]
          ELSE LET rest == ReadActions(bytes, s.pos, i + 1, count,
                               Append(acc, sky_action(id.value, s.str, "self")),
                               fault, g)
               IN  [rest EXCEPT !.ub = @ \/ s.overflow]

\* load as it would be without the initial unload (lines 95-97 dropped):
\* a failure leaves the registry as it was.
sky_action_file_load_no_unload(tbl, exists, bytes, as, count, fault, g) ==
    LET path == sky_action_file_get_path(tbl)
        fail == [rc |-> -1, actions |-> as, action_count |-> count,
                 decoded |-> 0, ub |-> FALSE, faulted |-> FALSE,
                 opened |-> 0, closed |-> 0, early |-> FALSE, leaked |-> 0,
                 freed |-> 0]
        hdr  == minipack_fread_array(bytes, 0)
        rd   == ReadActions(bytes, hdr.sz, 0, hdr.value, <<>>, fault, g)
    IN  IF path.rc # 0 THEN [fail EXCEPT !.ub = TRUE, !.early = TRUE]
        ELSE IF ~exists
        THEN [fail EXCEPT !.rc = 0, !.actions = <<>>, !.action_count = 0]
        ELSE IF fault.kind = "fopen" THEN [fail EXCEPT !.faulted = TRUE]
        ELSE IF hdr.sz = 0 THEN [fail EXCEPT !.opened = 1, !.closed = 1]
        ELSE IF hdr.value > 0 /\ fault.kind = "malloc"
        THEN [fail EXCEPT !.faulted = TRUE, !.opened = 1, !.closed = 1]
        ELSE IF rd.rc # 0
        THEN [fail EXCEPT !.decoded = Len(rd.actions), !.ub = rd.ub,
                          !.faulted = rd.faulted, !.leaked = rd.leaked,
                          !.opened = 1, !.closed = 1]
        ELSE [fail EXCEPT !.rc = 0, !.actions = rd.actions,
                          !.action_count = hdr.value,
                          !.decoded = Len(rd.actions), !.ub = rd.ub,
                          !.opened = 1, !.closed = 1]

\* load as it would be without the sky_file_exists test of line 105: the
\* file is opened whether it exists or not, and fopen fails on a missing
\* one.
sky_action_file_load_no_exists(tbl, exists, bytes, as, count, fault, g) ==
    LET un   == sky_action_file_unload(as, count)
        path == sky_action_file_get_path(tbl)
        fail == [rc |-> -1, actions |-> un.actions,
                 action_count |-> un.action_count, decoded |-> 0,
                 ub |-> FALSE, faulted |-> FALSE,
                 opened |-> 0, closed |-> 0, early |-> FALSE, leaked |-> 0,
                 freed |-> un.freed]
        hdr  == minipack_fread_array(bytes, 0)
        rd   == ReadActions(bytes, hdr.sz, 0, hdr.value, <<>>, fault, g)
    IN  IF path.rc # 0 THEN [fail EXCEPT !.ub = TRUE, !.early = TRUE]
        ELSE IF ~exists THEN fail
        ELSE IF fault.kind = "fopen" THEN [fail EXCEPT !.faulted = TRUE]
        ELSE IF hdr.sz = 0 THEN [fail EXCEPT !.opened = 1, !.closed = 1]
        ELSE IF hdr.value > 0 /\ fault.kind = "malloc"
        THEN [fail EXCEPT !.faulted = TRUE, !.opened = 1, !.closed = 1]
        ELSE IF rd.rc # 0
        THEN [fail EXCEPT !.decoded = Len(rd.actions), !.ub = rd.ub,
                          !.faulted = rd.faulted, !.leaked = rd.leaked,
                          !.opened = 1, !.closed = 1]
        ELSE [fail EXCEPT !.rc = 0, !.actions = rd.actions,
                          !.action_count = hdr.value,
                          !.decoded = Len(rd.actions), !.ub = rd.ub,
                          !.opened = 1, !.closed = 1]

\* sky_action_file_load.  Result: rc, the registry afterwards, the number
\* of actions the call decoded, faulted (the call failed on fopen or on an
\* allocation, not on the file's content), and ub: the call ran into undefined
\* behaviour (a heap overflow in the bstring read, the uninitialised str
\* of its error path, or fclose of the uninitialised FILE* when the
\* failure comes before fopen).  opened and closed count the fopen calls
\* that succeeded and the fclose calls on their handles; early: the error
\* path ran with the FILE* never assigned; leaked: the objects left
\* allocated and unowned; freed: the actions the initial unload released.
sky_action_file_load(tbl, exists, bytes, as, count, fault, g) ==
    LET un   == sky_action_file_unload(as, count)
        path == sky_action_file_get_path(tbl)
        fail == [rc |-> -1, actions |-> un.actions,
                 action_count |-> un.action_count, decoded |-> 0,
                 ub |-> FALSE, faulted |-> FALSE,
                 opened |-> 0, closed |-> 0, early |-> FALSE, leaked |-> 0,
                 freed |-> un.freed]
        hdr  == minipack_fread_array(bytes, 0)
        rd   == ReadActions(bytes, hdr.sz, 0, hdr.value, <<>>, fault, g)
    IN  IF path.rc # 0 THEN [fail EXCEPT !.ub = TRUE, !.early = TRUE]
        ELSE IF ~exists
        THEN [fail EXCEPT !.rc = 0, !.actions = <<>>, !.action_count = 0]
        ELSE IF fault.kind = "fopen" THEN [fail EXCEPT !.faulted = TRUE]
        ELSE IF hdr.sz = 0 THEN [fail EXCEPT !.opened = 1, !.closed = 1]
        ELSE IF hdr.value > 0 /\ fault.kind = "malloc"
        THEN [fail EXCEPT !.faulted = TRUE, !.opened = 1, !.closed = 1]
        ELSE IF rd.rc # 0
        THEN [fail EXCEPT !.decoded = Len(rd.actions), !.ub = rd.ub,
                          !.faulted = rd.faulted, !.leaked = rd.leaked,
                          !.opened = 1, !.closed = 1]
        ELSE [fail EXCEPT !.rc = 0, !.actions = rd.actions,
                          !.action_count = hdr.value,
                          !.decoded = Len(rd.actions), !.ub = rd.ub,
                          !.opened = 1, !.closed = 1]

\* ---------------------------------------------------------------- save
\* The write calls of the loop of save for actions i.. (i counted from 1),
\* each as the bytes it writes: minipack_fwrite_int, then the two of
\* sky_minipack_fwrite_bstring (minipack_fwrite_raw and fwrite).
RECURSIVE SaveRecords(_, _, _)
SaveRecords(as, i, g) ==
    IF i > Len(as) THEN <<>>
    ELSE LET b == sky_minipack_fwrite_bstring(as[i].name, g)
         IN  <<minipack_fwrite_int(as[i].id), SubSeq(b, 1, 1),
               SubSeq(b, 2, Len(b))>> \o SaveRecords(as, i + 1, g)

\* All the write calls of save, in order.
SaveCalls(as, count, g) ==
    <<minipack_fwrite_array(count)>> \o SaveRecords(as, 1, g)

\* The bytes of the first n write calls.
RECURSIVE Written(_, _)
Written(calls, n) ==
    IF n <= 0 THEN <<>> ELSE Written(calls, n - 1) \o calls[n]

\* save as it would be without the sky_file_exists test of line 174:
\* fopen(path, "w") creates the file.
sky_action_file_save_creates(tbl, exists, bytes, as, count, fopen_ok, failing, g) ==
    LET path  == sky_action_file_get_path(tbl)
        calls == SaveCalls(as, count, g)
        same  == [rc |-> 0, file_exists |-> exists, file |-> bytes,
                  ub |-> FALSE, segv |-> FALSE, faulted |-> FALSE,
                  actions |-> as, action_count |-> count,
                  opened |-> 0, closed |-> 0, early |-> FALSE]
        open  == [same EXCEPT !.file_exists = TRUE, !.opened = 1,
                              !.closed = 1]
    IN  IF path.rc # 0
        THEN [same EXCEPT !.rc = -1, !.ub = TRUE, !.early = TRUE]
        ELSE IF ~fopen_ok THEN [same EXCEPT !.rc = -1, !.faulted = TRUE]
        ELSE IF failing = 1
        THEN [open EXCEPT !.rc = -1, !.file = <<>>, !.faulted = TRUE]
        ELSE IF count > Len(as)
        THEN [open EXCEPT !.rc = -1, !.file = <<>>, !.segv = TRUE,
                          !.closed = 0]
        ELSE IF failing > 0
        THEN [open EXCEPT !.rc = -1, !.file = Written(calls, failing - 1),
                          !.faulted = TRUE]
        ELSE [open EXCEPT !.file = Written(calls, Len(calls))]

\* save as it would be if it released the registry once the file is
\* written (an unload after the fclose of line 197).
sky_action_file_save_unloads(tbl, exists, bytes, as, count, fopen_ok, failing, g) ==
    LET path  == sky_action_file_get_path(tbl)
        calls == SaveCalls(as, count, g)
        same  == [rc |-> 0, file_exists |-> exists, file |-> bytes,
                  ub |-> FALSE, segv |-> FALSE, faulted |-> FALSE,
                  actions |-> as, action_count |-> count,
                  opened |-> 0, closed |-> 0, early |-> FALSE]
        open  == [same EXCEPT !.opened = 1, !.closed = 1]
    IN  IF path.rc # 0
        THEN [same EXCEPT !.rc = -1, !.ub = TRUE, !.early = TRUE]
        ELSE IF ~exists THEN same
        ELSE IF ~fopen_ok THEN [same EXCEPT !.rc = -1, !.faulted = TRUE]
        ELSE IF failing = 1
        THEN [open EXCEPT !.rc = -1, !.file = <<>>, !.faulted = TRUE]
        ELSE IF count > Len(as)
        THEN [open EXCEPT !.rc = -1, !.file = <<>>, !.segv = TRUE,
                          !.closed = 0]
        ELSE IF failing > 0
        THEN [open EXCEPT !.rc = -1, !.file = Written(calls, failing - 1),
                          !.faulted = TRUE]
        ELSE [open EXCEPT !.file = Written(calls, Len(calls)),
                          !.actions = <<>>, !.action_count = 0]

\* sky_action_file_save.  fopen_ok: fopen(path, "w") succeeds.  failing:
\* the write call that fails, counted from 1 (0: none fails); a failing
\* call writes nothing.  Result: rc, the file and the registry afterwards,
\* faulted (fopen or a write failed), ub (fclose of the uninitialised
\* FILE* when the path cannot be computed), segv (the loop reads a slot of
\* a NULL array; nothing was flushed to the file), opened and closed (the
\* fopen calls that succeeded, the fclose calls on their handles) and
\* early (the error path ran with the FILE* never assigned).
sky_action_file_save(tbl, exists, bytes, as, count, fopen_ok, failing, g) ==
    LET path  == sky_action_file_get_path(tbl)
        calls == SaveCalls(as, count, g)
        same  == [rc |-> 0, file_exists |-> exists, file |-> bytes,
                  ub |-> FALSE, segv |-> FALSE, faulted |-> FALSE,
                  actions |-> as, action_count |-> count,
                  opened |-> 0, closed |-> 0, early |-> FALSE]
        open  == [same EXCEPT !.opened = 1, !.closed = 1]
    IN  IF path.rc # 0
        THEN [same EXCEPT !.rc = -1, !.ub = TRUE, !.early = TRUE]
        ELSE IF ~exists THEN same
        ELSE IF ~fopen_ok THEN [same EXCEPT !.rc = -1, !.faulted = TRUE]
        ELSE IF failing = 1
        THEN [open EXCEPT !.rc = -1, !.file = <<>>, !.faulted = TRUE]
        ELSE IF count > Len(as)
        THEN [open EXCEPT !.rc = -1, !.file = <<>>, !.segv = TRUE,
                          !.closed = 0]
        ELSE IF failing > 0
        THEN [open EXCEPT !.rc = -1, !.file = Written(calls, failing - 1),
                          !.faulted = TRUE]
        ELSE [open EXCEPT !.file = Written(calls, Len(calls))]

\* ---------------------------------------------------------- findByName
\* findByName as it would be without the check of line 253: biseq answers
\* BSTR_ERR for a NULL name, so nothing matches.
sky_action_file_find_action_by_name_no_null_check(as, count, name) ==
    LET hits == {i \in 1..Min(count, Len(as)) : biseq(as[i].name, name) = 1}
    IN  IF hits # {}
        THEN [rc |-> 0, segv |-> FALSE,
              ret |-> CHOOSE i \in hits : \A j \in hits : i <= j]
        ELSE [rc |-> 0, ret |-> 0, segv |-> count > Len(as)]

\* sky_action_file_find_action_by_name.  ret is the position of the action
\* found, 0 for NULL.  segv: the scan reads a slot of a NULL array.
sky_action_file_find_action_by_name(as, count, name) ==
    LET hits == {i \in 1..Min(count, Len(as)) : biseq(as[i].name, name) = 1}
    IN  IF name = NullStr THEN [rc |-> -1, ret |-> 0, segv |-> FALSE]
        ELSE IF hits # {}
        THEN [rc |-> 0, segv |-> FALSE,
              ret |-> CHOOSE i \in hits : \A j \in hits : i <= j]
        ELSE [rc |-> 0, ret |-> 0, segv |-> count > Len(as)]

\* ----------------------------------------------------------------- add
\* add as it would be without the back-reference check of line 287.
sky_action_file_add_action_no_backref(as, count, action, memfail) ==
    LET found == sky_action_file_find_action_by_name(as, count, action.name)
        same  == [rc |-> -1, actions |-> as, action_count |-> count,
                  segv |-> FALSE, faulted |-> FALSE]
        id    == IF count = 0 THEN 1 ELSE as[count].id + 1
    IN  IF ~(action.id = 0) THEN same
        ELSE IF found.segv THEN [same EXCEPT !.segv = TRUE]
        ELSE IF ~(found.rc = 0 /\ found.ret # 0) THEN same
        ELSE IF memfail
        THEN [same EXCEPT !.actions = <<>>, !.action_count = count + 1,
                          !.faulted = TRUE]
        ELSE [rc |-> 0, segv |-> FALSE, faulted |-> FALSE,
              action_count |-> count + 1,
              actions |-> Append(as, sky_action(id, action.name, "self"))]

\* sky_action_file_add_action.  memfail: realloc returns NULL.  Result: rc,
\* the registry afterwards, faulted (realloc failed) and segv (the name
\* scan reads a slot of a NULL array).
sky_action_file_add_action(as, count, action, memfail) ==
    LET found == sky_action_file_find_action_by_name(as, count, action.name)
        same  == [rc |-> -1, actions |-> as, action_count |-> count,
                  segv |-> FALSE, faulted |-> FALSE]
        id    == IF count = 0 THEN 1 ELSE as[count].id + 1
    IN  IF ~(action.id = 0) THEN same
        ELSE IF ~(action.action_file = "NULL") THEN same
        ELSE IF found.segv THEN [same EXCEPT !.segv = TRUE]
        ELSE IF ~(found.rc = 0 /\ found.ret # 0) THEN same
        ELSE IF memfail
        THEN [same EXCEPT !.actions = <<>>, !.action_count = count + 1,
                          !.faulted = TRUE]
        ELSE [rc |-> 0, segv |-> FALSE, faulted |-> FALSE,
              action_count |-> count + 1,
              actions |-> Append(as, sky_action(id, action.name, "self"))]

\* The actions a caller can hand to add.
AddInputs ==
    { sky_action(id, name, af) :
        id \in {0, 1}, name \in AddNames, af \in {"NULL", "self"} } \
    { sky_action(1, name, "self") : name \in AddNames }

\* ------------------------------------------------------------- actions
\* The record of a call of the bstring codec: its name, result and
\* string, the stream position before it, and whether the allocation
\* failed.
CodecCall(op, rc, str, faulted) ==
    [op |-> op, rc |-> rc, str |-> str, faulted |-> faulted,
     pre_pos |-> stream_pos]

\* No call of the codec yet.
NoRead == [op |-> "none", rc |-> 0, str |-> NullStr, faulted |-> FALSE,
           pre_pos |-> 0]

\* sky_action_file_create: an empty registry bound to its table.  The file
\* of the table is absent or was created before the first call.
Init ==
    /\ table \in TablePaths
    /\ actions = <<>>
    /\ action_count = 0
    /\ \/ file_exists = FALSE /\ file = <<>>
       \/ file_exists = TRUE /\ file \in FixtureFiles
    /\ crashed = FALSE
    /\ last = [op |-> "create", rc |-> 0, arg |-> NoAction, decoded |-> 0,
               faulted |-> FALSE,
               pre_count |-> 0, pre_exists |-> file_exists,
               ret |-> 0, opened |-> 0, closed |-> 0, close_wild |-> FALSE,
               leaked |-> 0, freed |-> 0]
    /\ stream = <<>>
    /\ stream_pos = 0
    /\ codec = NoRead

Unload ==
    /\ ~crashed
    /\ LET r == sky_action_file_unload(actions, action_count)
       IN  /\ actions' = r.actions
           /\ action_count' = r.action_count
           /\ last' = [Call("unload", r.rc, NoAction, 0, FALSE)
                          EXCEPT !.freed = r.freed]
    /\ UNCHANGED <<table, file_exists, file, crashed>>
    /\ UNCHANGED codec_vars

Load ==
    /\ ~crashed
    /\ \E fault \in LoadFaults, g \in GarbageBytes, crash \in BOOLEAN,
          wild \in BOOLEAN :
         LET r == sky_action_file_load(table, file_exists, file, actions,
                                       action_count, fault, g)
         IN  /\ wild => r.early
             /\ crash => (r.ub /\ (r.early => wild))
             /\ crashed' = crash
             /\ actions' = r.actions
             /\ action_count' = r.action_count
             /\ last' = [Call("load", r.rc, NoAction, r.decoded, r.faulted)
                            EXCEPT !.opened = r.opened, !.closed = r.closed,
                                   !.close_wild = wild, !.leaked = r.leaked,
                                   !.freed = r.freed]
    /\ UNCHANGED <<table, file_exists, file>>
    /\ UNCHANGED codec_vars

Save ==
    /\ ~crashed
    /\ \E fopen_ok \in BOOLEAN, g \in GarbageBytes, crash \in BOOLEAN,
          wild \in BOOLEAN :
       \E failing \in 0..Len(SaveCalls(actions, action_count, g)) :
         LET r == sky_action_file_save(table, file_exists, file, actions,
                                       action_count, fopen_ok, failing, g)
         IN  /\ wild => r.early
             /\ crash => ((r.ub \/ r.segv) /\ (r.early => wild))
             /\ r.segv => crash
             /\ crashed' = crash
             /\ file_exists' = r.file_exists
             /\ file' = r.file
             /\ actions' = r.actions
             /\ action_count' = r.action_count
             /\ last' = [Call("save", r.rc, NoAction, 0, r.faulted)
                            EXCEPT !.opened = r.opened, !.closed = r.closed,
                                   !.close_wild = wild]
    /\ UNCHANGED table
    /\ UNCHANGED codec_vars

Add ==
    /\ ~crashed
    /\ action_count < MaxActions
    /\ \E action \in AddInputs, memfail \in BOOLEAN :
         LET r == sky_action_file_add_action(actions, action_count, action,
                                             memfail)
         IN  /\ crashed' = r.segv
             /\ actions' = r.actions
             /\ action_count' = r.action_count
             /\ last' = Call("add", r.rc, action, 0, r.faulted)
    /\ UNCHANGED <<table, file_exists, file>>
    /\ UNCHANGED codec_vars

\* findByName, called with any of the names.
Find ==
    /\ ~crashed
    /\ \E name \in AddNames :
         LET r == sky_action_file_find_action_by_name(actions, action_count,
                                                      name)
         IN  /\ crashed' = r.segv
             /\ last' = [Call("find", r.rc, sky_action(0, name, "NULL"), 0,
                               FALSE) EXCEPT !.ret = r.ret]
    /\ UNCHANGED <<table, actions, action_count, file_exists, file>>
    /\ UNCHANGED codec_vars

\* The file is removed from outside the program (sky_file_exists answers
\* for the file system as it is at the call).
RemoveFile ==
    /\ ~crashed
    /\ file_exists
    /\ file_exists' = FALSE
    /\ file' = <<>>
    /\ last' = Call("remove", 0, NoAction, 0, FALSE)
    /\ UNCHANGED <<table, actions, action_count, crashed>>
    /\ UNCHANGED codec_vars

Next == Unload \/ Load \/ Save \/ Add \/ Find \/ RemoveFile

Spec == Init /\ [][Next]_vars

\* ------------------------------------------- the bstring codec by itself
\* The streams the codec is first called on.
CodecStreams ==
    UNION { [1..n -> StreamBytes] : n \in 0..MaxStream }

\* A caller holds a stream of some content at some position; the registry
\* takes no part.
InitCodec ==
    /\ table = NoTable
    /\ actions = <<>>
    /\ action_count = 0
    /\ file_exists = FALSE
    /\ file = <<>>
    /\ crashed = FALSE
    /\ last = [op |-> "create", rc |-> 0, arg |-> NoAction, decoded |-> 0,
               faulted |-> FALSE,
               pre_count |-> 0, pre_exists |-> FALSE,
               ret |-> 0, opened |-> 0, closed |-> 0, close_wild |-> FALSE,
               leaked |-> 0, freed |-> 0]
    /\ stream \in CodecStreams
    /\ stream_pos \in 0..Len(stream)
    /\ codec = NoRead

\* sky_minipack_fread_bstring on the stream at its position.
ReadString ==
    /\ ~crashed
    /\ \E memfail \in BOOLEAN, g \in GarbageBytes, crash \in BOOLEAN :
         LET r == sky_minipack_fread_bstring(stream, stream_pos, memfail, g)
         IN  /\ crash => (r.overflow \/ r.wild)
             /\ crashed' = crash
             /\ stream_pos' = r.pos
             /\ codec' = CodecCall("read", r.rc, r.str, r.faulted)
    /\ UNCHANGED stream
    /\ UNCHANGED registry_vars

\* sky_minipack_fwrite_bstring at the end of the stream.
WriteString ==
    /\ ~crashed
    /\ stream_pos = Len(stream)
    /\ Len(stream) <= MaxStream
    /\ \E str \in AddNames, g \in GarbageBytes :
         /\ stream' = stream \o sky_minipack_fwrite_bstring(str, g)
         /\ stream_pos' = Len(stream')
         /\ codec' = CodecCall("write", 0, str, FALSE)
    /\ UNCHANGED crashed
    /\ UNCHANGED registry_vars

\* The caller repositions the stream (fseek).
Seek ==
    /\ ~crashed
    /\ \E p \in 0..Len(stream) :
         /\ stream_pos' = p
         /\ codec' = CodecCall("seek", 0, NullStr, FALSE)
    /\ UNCHANGED <<stream, crashed>>
    /\ UNCHANGED registry_vars

NextCodec == ReadString \/ WriteString \/ Seek

SpecCodec == InitCodec /\ [][NextCodec]_vars

\* ------------------------------------------------------------ properties
\* The registry has an owner and the owner has a path.
HasPath(tbl) == tbl # NoTable /\ tbl # NullStr

\* A detached action: id 0 and no back-reference.
Detached(a) == a.id = 0 /\ a.action_file = "NULL"

\* Some stored action has this name.
Stored(as, name) == \E i \in 1..Len(as) : as[i].name = name

\* The ids are 1..n in order and the names are pairwise distinct.
WellFormed(as, count) ==
    /\ Len(as) = count
    /\ \A i \in 1..Len(as) : as[i].id = i
    /\ \A i, j \in 1..Len(as) : as[i].name = as[j].name => i = j

\* C1: add of a detached action whose (non-null) name matches no stored
\* action, with realloc succeeding, returns success, appends the action
\* linked to the registry with id 1 on an empty registry and (id of the
\* last stored action) + 1 otherwise, grows count by exactly 1 and leaves
\* the actions stored before unchanged and in the same order.
C1_AddNewName ==
    [][ ( /\ last'.op = "add"
          /\ ~last'.faulted
          /\ Detached(last'.arg)
          /\ last'.arg.name # NullStr
          /\ Len(actions) = action_count
          /\ ~Stored(actions, last'.arg.name) )
        => ( /\ ~crashed'
             /\ last'.rc = 0
             /\ action_count' = action_count + 1
             /\ actions' = Append(actions,
                    sky_action(IF Len(actions) = 0 THEN 1
                               ELSE actions[Len(actions)].id + 1,
                               last'.arg.name, "self")) ) ]_vars

\* C2: add of a detached action whose name equals the name of a stored
\* action returns failure and leaves count and the collection unchanged.
C2_DuplicateRejected ==
    [][ ( /\ last'.op = "add"
          /\ Detached(last'.arg)
          /\ Len(actions) = action_count
          /\ Stored(actions, last'.arg.name) )
        => ( /\ last'.rc = -1
             /\ action_count' = action_count
             /\ actions' = actions ) ]_vars

C5_RoundTrip ==
    [][ ( /\ ~crashed
          /\ last.op = "save" /\ last.rc = 0 /\ last.pre_exists
          /\ WellFormed(actions, action_count)
          /\ last'.op = "load" /\ ~last'.faulted )
        => ( /\ ~crashed'
             /\ last'.rc = 0
             /\ action_count' = action_count
             /\ actions' = actions ) ]_vars

\* C6: add of an action whose id is non-zero or whose back-reference is
\* non-null returns failure and changes neither count nor the collection,
\* whatever the state of the registry.
C6_DetachedPrecondition ==
    [][ (last'.op = "add" /\ ~Detached(last'.arg))
        => ( /\ ~crashed'
             /\ last'.rc = -1
             /\ action_count' = action_count
             /\ actions' = actions ) ]_vars

\* C6 witness: add of an action with id 0 but a back-reference, whose name
\* is the name of a stored action, was refused on a non-empty registry.
C6_Witness ==
    /\ ~crashed /\ last.op = "add" /\ last.rc = -1
    /\ last.arg.id = 0 /\ last.arg.action_file # "NULL"
    /\ action_count > 0 /\ Len(actions) = action_count
    /\ Stored(actions, last.arg.name)

\* C7: in every reachable state, the one a failed operation leaves
\* included, count is the number of actions held in the collection.
C7_CountIsLength == action_count = Len(actions)

\* C8: whenever load returns failure the registry is empty: count is 0 and
\* no action is stored.
C8_FailedLoadEmpty ==
    (~crashed /\ last.op = "load" /\ last.rc = -1)
        => (action_count = 0 /\ actions = <<>>)

\* C8 witness: a load failed after it had decoded a record, on a registry
\* that held actions before the call.
C8_Witness ==
    /\ ~crashed /\ last.op = "load" /\ last.rc = -1
    /\ last.pre_count > 0 /\ last.decoded > 0

\* C9: load on a registry whose table has a path but whose file does not
\* exist returns success and leaves count 0 and an empty collection.
C9_MissingFileLoad ==
    (last.op = "load" /\ HasPath(table) /\ ~last.pre_exists)
        => (~crashed /\ last.rc = 0 /\ action_count = 0 /\ actions = <<>>)

\* C9 witness: such a load on a registry that held actions before it.
C9_Witness ==
    /\ last.op = "load" /\ HasPath(table) /\ ~last.pre_exists
    /\ last.rc = 0 /\ last.pre_count > 0

\* C10: save on a registry whose file (at the path of its table) does not
\* exist returns success and writes nothing, the file still does not
\* exist afterwards, and no call of the program makes an absent file exist.
C10_NoCreateSave ==
    [][ /\ (last'.op = "save" /\ HasPath(table) /\ ~file_exists)
            => (~crashed' /\ last'.rc = 0 /\ ~file_exists' /\ file' = file)
        /\ ~file_exists => ~file_exists' ]_vars

\* C10 witness: a save of a non-empty registry found no file, succeeded
\* and left none.
C10_Witness ==
    /\ ~crashed /\ last.op = "save" /\ last.rc = 0
    /\ HasPath(table) /\ ~last.pre_exists /\ ~file_exists
    /\ action_count > 0 /\ Len(actions) = action_count

\* C11: readString on a stream whose raw header announces length L but
\* which holds fewer than L payload bytes returns failure and leaves the
\* stream at the position it had before the header was read.
C11_TruncatedRead ==
    ( /\ ~crashed /\ codec.op = "read" /\ ~codec.faulted
      /\ minipack_fread_raw(stream, codec.pre_pos).sz # 0
      /\ Len(stream) - (codec.pre_pos + 1)
            < minipack_fread_raw(stream, codec.pre_pos).value )
    => (codec.rc = -1 /\ stream_pos = codec.pre_pos)

\* C19: readString on a stream positioned at a raw header announcing
\* length L >= 0 followed by at least L payload bytes returns success with
\* exactly those L bytes and leaves the stream right after the payload.
C19_WellFormedRead ==
    LET L == minipack_fread_raw(stream, codec.pre_pos).value
    IN  ( /\ ~crashed /\ codec.op = "read" /\ ~codec.faulted
          /\ minipack_fread_raw(stream, codec.pre_pos).sz # 0
          /\ Len(stream) - (codec.pre_pos + 1) >= L )
        => ( /\ codec.rc = 0
             /\ codec.str = SubSeq(stream, codec.pre_pos + 2,
                                   codec.pre_pos + 1 + L)
             /\ stream_pos = codec.pre_pos + 1 + L )

\* The position of the first stored action of this name, 0 if none.
FirstStored(as, name) ==
    IF Stored(as, name)
    THEN CHOOSE i \in 1..Len(as) :
            /\ as[i].name = name
            /\ \A j \in 1..(i - 1) : as[j].name # name
    ELSE 0

\* C12: findByName with a non-null name returns success; the result is
\* null when no stored name equals the query and otherwise the first
\* stored action, in insertion order, whose name equals it; the registry
\* is unchanged.
C12_FindSemantics ==
    [][ (last'.op = "find" /\ last'.arg.name # NullStr)
        => ( /\ ~crashed'
             /\ last'.rc = 0
             /\ last'.ret = FirstStored(actions, last'.arg.name)
             /\ actions' = actions
             /\ action_count' = action_count ) ]_vars

\* C13 as stated: findByName with a null or a zero-length name returns
\* failure with a null result.
C13_NullOrEmptyRejected ==
    (last.op = "find" /\ (last.arg.name = NullStr \/ last.arg.name = <<>>))
        => (~crashed /\ last.rc = -1 /\ last.ret = 0)

\* C13 as amended: findByName with a null name returns failure with a
\* null result, for every state of the registry.
C13_NullRejected ==
    (last.op = "find" /\ last.arg.name = NullStr)
        => (~crashed /\ last.rc = -1 /\ last.ret = 0)

\* C13 witness: a null name was refused on a registry holding actions.
C13_Witness ==
    /\ ~crashed /\ last.op = "find" /\ last.arg.name = NullStr
    /\ last.rc = -1 /\ action_count > 0 /\ Len(actions) = action_count

\* C14: when load or save returns, every handle it opened has been closed
\* exactly once and it has closed no handle that it did not open.
C14_HandlesClosedOnce ==
    (~crashed /\ last.op \in {"load", "save"})
        => (last.closed = last.opened /\ ~last.close_wild)

\* C15: when load returns failure, nothing it allocated is left that is
\* neither owned by the registry nor freed.
C15_NoLeakOnFailedLoad ==
    (~crashed /\ last.op = "load" /\ last.rc = -1) => last.leaked = 0

\* C16: unload returns success, leaves count 0 and an empty collection,
\* has released each action held before exactly once, and on an empty
\* registry changes nothing.
C16_Unload ==
    [][ last'.op = "unload"
        => ( /\ ~crashed'
             /\ last'.rc = 0
             /\ action_count' = 0
             /\ actions' = <<>>
             /\ last'.freed = Len(actions)
             /\ (action_count = 0 /\ actions = <<>>)
                   => (actions' = actions /\ action_count' = action_count
                       /\ last'.freed = 0)
             /\ file' = file /\ file_exists' = file_exists ) ]_vars

\* C16 witness: an unload released the actions of a non-empty registry.
C16_Witness ==
    /\ ~crashed /\ last.op = "unload" /\ last.rc = 0
    /\ last.pre_count > 1 /\ last.freed = last.pre_count
    /\ action_count = 0 /\ actions = <<>>

\* C17: getPath fails exactly when the registry has no owner or the owner
\* has no path and otherwise returns <owner.path>/actions; load and save
\* on a registry without a path return failure and open no file.
C17_NoPath ==
    /\ sky_action_file_get_path(table).rc = (IF HasPath(table) THEN 0 ELSE -1)
    /\ HasPath(table) =>
          sky_action_file_get_path(table).path
            = table \o <<47, 97, 99, 116, 105, 111, 110, 115>>
    /\ (last.op \in {"load", "save"} /\ ~HasPath(table))
          => (~crashed /\ last.rc = -1 /\ last.opened = 0)

\* C18: after a successful save on a file that exists, the file is
\* exactly ArrayHeader(count) followed, per stored action in order, by
\* Int(id) and RawString(name) with the bytes of the name as payload.
C18_SavedFileFormat ==
    ( /\ ~crashed /\ last.op = "save" /\ last.rc = 0 /\ last.pre_exists
      /\ Len(actions) = action_count )
    => file = WireFormat(actions)

\* C20: save never changes the registry in memory: count and the stored
\* actions are the same after it as before, whatever it returns.
C20_SaveFrame ==
    [][ last'.op = "save"
        => (actions' = actions /\ action_count' = action_count) ]_vars

\* C20 witness: a save that failed on a write left a non-empty registry
\* (and a file that exists) behind.
C20_Witness ==
    /\ ~crashed /\ last.op = "save" /\ last.rc = -1 /\ last.faulted
    /\ last.pre_exists /\ action_count > 1 /\ Len(actions) = action_count

====
